---- MODULE Spec2Model ----
(***************************************************************************)
(* Model of pynt.input.cisco.CiscoFetcher: the interface-name normalizer   *)
(* (splitIface), the three line parsers (parseInterfaces, parseVlans,      *)
(* parseNeighbors) and the object graph they populate.                     *)
(*                                                                         *)
(* Text is modelled as sequences of one-character strings, so that the     *)
(* regular expressions are evaluated character by character.               *)
(***************************************************************************)
EXTENDS Integers, Sequences, FiniteSets, TLC

\* ------------------------------------------------------------------ bounds
MaxLen == 5      \* longest raw interface name fed to splitIface in SpecNorm
MaxLines == 4    \* input lines consumed in one behaviour of Spec
MaxNeighborLines == 6   \* neighbor lines consumed in one behaviour of SpecNeighbors
MaxReapply == 2  \* input lines consumed in one behaviour of SpecReapply
MaxDevices == 3  \* sections of the device configuration in SpecReader

\* ------------------------------------------------------- character classes
Letters == {"G", "i", "g", "T", "e", "V", "l", "P", "o", "R", "S", "x"}
Digits == {"0", "1", "2"}
Spaces == {" "}

IsLetter(c) == c \in Letters
IsDigit(c) == c \in Digits
IsSpace(c) == c \in Spaces

\* index of the first position >= i of s that is not in class cls
RECURSIVE SkipClass(_, _, _)
SkipClass(s, i, cls) ==
    IF i <= Len(s) /\ s[i] \in cls THEN SkipClass(s, i + 1, cls) ELSE i

\* an optional single character c at position i
SkipOpt(s, i, c) == IF i <= Len(s) /\ s[i] = c THEN i + 1 ELSE i

Min(a, b) == IF a < b THEN a ELSE b

\* ------------------------------------------------------------- splitIface
NoMatch == [ok |-> FALSE, g1 |-> <<>>, g2 |-> <<>>]

\* iface_re = ^\s*([a-zA-Z]{,2})[a-zA-Z]*(\d+/?\d*\.?\d*)\s*$
iface_re(s) ==
    LET i0 == SkipClass(s, 1, Spaces)
        i1 == SkipClass(s, i0, Letters)
        i2 == SkipClass(s, i1, Digits)
        i3 == SkipOpt(s, i2, "/")
        i4 == SkipClass(s, i3, Digits)
        i5 == SkipOpt(s, i4, ".")
        i6 == SkipClass(s, i5, Digits)
        i7 == SkipClass(s, i6, Spaces)
    IN  IF i2 > i1 /\ i7 = Len(s) + 1
        THEN [ok |-> TRUE,
              g1 |-> SubSeq(s, i0, Min(i0 + 1, i1 - 1)),
              g2 |-> SubSeq(s, i1, i6 - 1)]
        ELSE NoMatch

IfaceKeySwapped(prefix, path) == path \o prefix

\* m.group(1)+m.group(2)
IfaceKey(prefix, path) == prefix \o path

Malformed == [ok |-> FALSE, key |-> <<>>, prefix |-> <<>>, path |-> <<>>]

splitIface(iface) ==
    LET m == iface_re(iface)
    IN  IF m.ok /\ (m.g1 # <<>> \/ m.g2 # <<>>)
        THEN [ok |-> TRUE, key |-> IfaceKey(m.g1, m.g2),
              prefix |-> m.g1, path |-> m.g2]
        ELSE Malformed

\* ------------------------------------------------ device_id_re, iface_port_re
\* device_id_re = ^Device ID: (\S+.*\S+)\s*$ applied to a line 'Device ID: ' \o v.
\* The group is v without its trailing whitespace; it must start with a
\* non-space character and be at least two characters long.
RECURSIVE RStrip(_)
RStrip(s) ==
    IF s # <<>> /\ IsSpace(s[Len(s)]) THEN RStrip(SubSeq(s, 1, Len(s) - 1)) ELSE s

device_id_re(v) ==
    LET g == RStrip(v)
    IN  IF Len(g) >= 2 /\ ~IsSpace(g[1]) THEN [ok |-> TRUE, g1 |-> g]
        ELSE [ok |-> FALSE, g1 |-> <<>>]

NonSpace(s) == s # <<>> /\ \A i \in 1..Len(s) : ~IsSpace(s[i])

\* iface_port_re = ^Interface: (\S+),  Port ID \(outgoing port\): (\S+)\s*$
\* applied to a line 'Interface: ' \o a \o ',  Port ID (outgoing port): ' \o b
iface_port_re(a, b) ==
    LET gb == RStrip(b)
    IN  IF NonSpace(a) /\ NonSpace(gb) THEN [ok |-> TRUE, g1 |-> a, g2 |-> gb]
        ELSE [ok |-> FALSE, g1 |-> <<>>, g2 |-> <<>>]

\* ------------------------------------------------------- python primitives
\* str.isdigit()
isdigit(s) == s # <<>> /\ \A i \in 1..Len(s) : IsDigit(s[i])

DigitVal(c) == CASE c = "0" -> 0 [] c = "1" -> 1 [] c = "2" -> 2 [] OTHER -> 0

\* int(s) for an all-digit s
RECURSIVE int(_)
int(s) == IF s = <<>> THEN 0 ELSE 10 * int(SubSeq(s, 1, Len(s) - 1)) + DigitVal(s[Len(s)])

\* A VLAN identifier as handed to getCreateVlan: python keeps the type of the
\* value, and a str never equals an int.
IntKey(n) == [t |-> "int", n |-> n, s |-> <<>>]
StrKey(s) == [t |-> "str", n |-> 0, s |-> s]
Unbound == [t |-> "unbound", n |-> 0, s |-> <<>>]

\* (vlanid == n) where vlanid is the str sliced from the line and n an int
StrEqualsInt(s, n) == FALSE

\* ------------------------------------------------------------ object graph
\* The element classes live in pynt.elements and pynt.xmlns.
NewInterface ==
    [name |-> <<>>, prefix |-> <<>>, description |-> "",
     adminStatus |-> "unset", linkStatus |-> "unknown", connected |-> {}]

NewVlan ==
    [name |-> "", description |-> "", adminStatus |-> "unset",
     tagged |-> <<>>, untagged |-> <<>>]

\* device.getCreateNativeInterface(identifier) on the interface table ifs
getCreateNativeInterface(ifs, dev, identifier) ==
    IF <<dev, identifier>> \in DOMAIN ifs THEN ifs
    ELSE [r \in DOMAIN ifs \cup {<<dev, identifier>>} |->
             IF r \in DOMAIN ifs THEN ifs[r] ELSE NewInterface]

\* device.getCreateVlan(identifier) on the VLAN table vls
getCreateVlan(vls, key) ==
    IF key \in DOMAIN vls THEN vls
    ELSE [k \in DOMAIN vls \cup {key} |-> IF k \in DOMAIN vls THEN vls[k] ELSE NewVlan]

Members(seq) == {seq[i] : i \in 1..Len(seq)}

AddTaggedInterfaceAppend(vls, key, ref) ==
    [vls EXCEPT ![key].tagged = Append(@, ref)]

\* the membership lists are ordered sets: a member is listed once
AddTaggedInterface(vls, key, ref) ==
    [vls EXCEPT ![key].tagged = IF ref \in Members(@) THEN @ ELSE Append(@, ref)]

AddUntaggedInterface(vls, key, ref) ==
    [vls EXCEPT ![key].untagged = IF ref \in Members(@) THEN @ ELSE Append(@, ref)]

addConnectedInterfaceOneWay(ifs, l, r) ==
    [ifs EXCEPT ![l].connected = @ \cup {r}]

\* local_iface.addConnectedInterface(remote_iface)
addConnectedInterface(ifs, l, r) ==
    [ifs EXCEPT ![l].connected = @ \cup {r}, ![r].connected = @ \cup {l}]

\* pynt.xmlns.GetCreateNamespace(ns) + GetCreateRDFObject(identifier, namespace)
\* on the registry: a Device object is known by its namespace and identifier
GetCreateRDFObject(reg, identifier, ns) == reg \cup {<<ns, identifier>>}

\* deviceIdToNsuri
deviceIdToNsuri(device_id) == device_id \o <<"#">>

\* the device this fetcher was constructed for
Subject == <<"S", "1">>

\* ------------------------------------------------------ parseInterfaceLine
\* A description-table line is given by its four columns, each already
\* sliced at its fixed offsets and right-stripped:
\* [ifname, line_status, protocol_status, description].
PhysicalPrefixes == {<<"F", "a">>, <<"G", "i">>, <<"T", "e">>}
VlanPrefixes == {<<"V", "l">>}

\* the identifier parseInterfaceLine hands to getCreateVlan
DescriptionVlanKey(iface_num) == StrKey(iface_num)

SetsDescriptionAlways(description) == TRUE

\* if description: ...setDescription(description)
SetsDescription(description) == description # ""

\* the physical-interface branch once the name has been split
parsePhysicalLine(ifs, vls, sp, line) ==
    LET ref == <<Subject, sp.key>>
        i1 == getCreateNativeInterface(ifs, Subject, sp.key)
        i2 == [i1 EXCEPT ![ref].name = sp.key, ![ref].prefix = sp.prefix]
        i3 == IF SetsDescription(line.description)
              THEN [i2 EXCEPT ![ref].description = line.description] ELSE i2
        i4 == IF line.line_status \in {"admin down", "down"}
              THEN [i3 EXCEPT ![ref].adminStatus = "down"]
              ELSE [i3 EXCEPT ![ref].adminStatus = "up"]
    IN  IF line.line_status \notin {"admin down", "down", "up"}
        THEN [ifs |-> i3, vls |-> vls, err |-> "ParsingException",
              at |-> "line_status", result |-> TRUE]
        ELSE IF line.line_status # "up"
        THEN [ifs |-> i4, vls |-> vls, err |-> "none", at |-> "none", result |-> TRUE]
        ELSE IF line.protocol_status \in {"up", "down"}
        THEN [ifs |-> [i4 EXCEPT ![ref].linkStatus = line.protocol_status],
              vls |-> vls, err |-> "none", at |-> "none", result |-> TRUE]
        ELSE [ifs |-> i4, vls |-> vls, err |-> "ParsingException",
              at |-> "protocol_status", result |-> TRUE]

\* the 'Vl' branch once the name has been split
parseVlanInterfaceLine(ifs, vls, sp, line) ==
    LET key == DescriptionVlanKey(sp.path)
        v1 == getCreateVlan(vls, key)
        v2 == IF line.line_status \in {"admin down", "down"}
              THEN [v1 EXCEPT ![key].adminStatus = "down"]
              ELSE [v1 EXCEPT ![key].adminStatus = "up"]
    IN  IF line.line_status \notin {"admin down", "down", "up"}
        THEN [ifs |-> ifs, vls |-> v1, err |-> "ParsingException",
              at |-> "line_status", result |-> TRUE]
        ELSE [ifs |-> ifs,
              vls |-> IF SetsDescription(line.description)
                      THEN [v2 EXCEPT ![key].description = line.description] ELSE v2,
              err |-> "none", at |-> "none", result |-> TRUE]

SplitIfaceFailureSwallowed == "none"

\* try: self.splitIface(ifname) / except: raise
SplitIfaceFailure == "ParsingException"

parseInterfaceLine(ifs, vls, line) ==
    LET sp == splitIface(line.ifname)
        skipped == [ifs |-> ifs, vls |-> vls, err |-> "none", at |-> "none",
                    result |-> FALSE]
    IN  IF line.ifname = <<>> THEN skipped
        ELSE IF ~sp.ok
        THEN [skipped EXCEPT !.err = SplitIfaceFailure,
                             !.at = IF SplitIfaceFailure = "none" THEN "none" ELSE "ifname"]
        ELSE IF sp.prefix \in PhysicalPrefixes THEN parsePhysicalLine(ifs, vls, sp, line)
        ELSE IF sp.prefix \in VlanPrefixes THEN parseVlanInterfaceLine(ifs, vls, sp, line)
        ELSE skipped

\* ---------------------------------------------------------------- parseVlans
\* A VLAN-table row is given by its columns [vlanid, name, adminstatus, ports];
\* ports is the ports column with all whitespace removed and split on ','.
\* the identifier parseVlans hands to getCreateNativeInterface for a port token
VlanPortIdentifier(iface_id) == iface_id

\* for iface_id in ports.split(','): ...
RECURSIVE vlanPorts(_, _, _, _, _)
vlanPorts(ifs, vls, key, vlanid, ports) ==
    IF ports = <<>> THEN [ifs |-> ifs, vls |-> vls, err |-> "none", at |-> "none"]
    ELSE LET iface_id == Head(ports)
             ref == <<Subject, VlanPortIdentifier(iface_id)>>
         IN  IF iface_id = <<>> THEN vlanPorts(ifs, vls, key, vlanid, Tail(ports))
             ELSE IF ~splitIface(iface_id).ok
             THEN [ifs |-> ifs, vls |-> vls, err |-> "ParsingException", at |-> "port"]
             ELSE vlanPorts(getCreateNativeInterface(ifs, Subject, ref[2]),
                            IF StrEqualsInt(vlanid, 1)
                            THEN AddUntaggedInterface(vls, key, ref)
                            ELSE AddTaggedInterface(vls, key, ref),
                            key, vlanid, Tail(ports))

\* the exception raised by 'if not vlan' when no row has bound vlan yet
UnboundVlanError == "UnboundLocalError"

\* vlancount += 1, on every row with a non-blank id column
CountRow(count, seen, id) == count + 1

\* one iteration of the loop over vlanlines; cur is the local variable vlan,
\* seen the ids of the id columns of the earlier rows of this call
parseVlanRow(ifs, vls, cur, count, seen, row) ==
    LET header == row.vlanid # <<>>
        key == IF header THEN IntKey(int(row.vlanid)) ELSE cur
        v1 == IF header THEN getCreateVlan(vls, key) ELSE vls
        count1 == IF header THEN CountRow(count, seen, int(row.vlanid)) ELSE count
        v2 == IF row.adminstatus \in {"active", "inactive"}
              THEN [v1 EXCEPT ![key].adminStatus = row.adminstatus] ELSE v1
        v3 == [v2 EXCEPT ![key].name = row.name]
        p == vlanPorts(ifs, v3, key, row.vlanid, row.ports)
    IN  IF header /\ ~isdigit(row.vlanid)
        THEN [ifs |-> ifs, vls |-> vls, vlan |-> cur, vlancount |-> count,
              err |-> "ParsingException", at |-> "vlanid"]
        ELSE IF key = Unbound
        THEN [ifs |-> ifs, vls |-> vls, vlan |-> cur, vlancount |-> count,
              err |-> UnboundVlanError, at |-> "vlan"]
        ELSE [ifs |-> p.ifs, vls |-> p.vls, vlan |-> key, vlancount |-> count1,
              err |-> p.err, at |-> p.at]

\* ------------------------------------------------------------ parseNeighbors
\* A line of the neighbor block is [k, v, a, b]:
\*   k = "sep"    the line '-------------------------'
\*   k = "devid"  the line 'Device ID: ' \o v
\*   k = "ifport" the line 'Interface: ' \o a \o ',  Port ID (outgoing port): ' \o b
\*   k = "other"  any other line
None == <<>>

RemoteIdentifierLocal(local_iface_id, remote_iface_id) == local_iface_id

\* the identifier of the interface created on the neighbor device
RemoteIdentifier(local_iface_id, remote_iface_id) == remote_iface_id

NeighborNsuriBare(device_id) == device_id

\* self.deviceIdToNsuri(device_id) for the neighbor's namespace
NeighborNsuri(device_id) == deviceIdToNsuri(device_id)

\* if device_id and local_iface_id and remote_iface_id: ...
emitAdjacency(ifs, reg, dev, l, r) ==
    LET rid == RemoteIdentifier(l, r)
        reg1 == GetCreateRDFObject(reg, dev, NeighborNsuri(dev))
        i1 == getCreateNativeInterface(ifs, Subject, l)
        i2 == getCreateNativeInterface(i1, dev, rid)
    IN  [ifs |-> addConnectedInterface(i2, <<Subject, l>>, <<dev, rid>>), reg |-> reg1]

SeparatorKeepsDeviceId(loc) ==
    [device_id |-> loc.device_id, local_iface_id |-> None,
     remote_iface_id |-> None, state |-> "search"]

\* the locals after the separator line
SeparatorReset(loc) ==
    [device_id |-> None, local_iface_id |-> None,
     remote_iface_id |-> None, state |-> "search"]

AfterEmitSearchAgain(loc, l, r) ==
    [device_id |-> None, local_iface_id |-> None,
     remote_iface_id |-> None, state |-> "search"]

\* the locals after the adjacency of the entry has been made
AfterEmit(loc, l, r) ==
    [device_id |-> loc.device_id, local_iface_id |-> l,
     remote_iface_id |-> r, state |-> "skip"]

\* one iteration of the loop over neighborlines; loc holds the locals
\* [device_id, local_iface_id, remote_iface_id, state]
parseNeighborLine(ifs, reg, loc, line) ==
    LET same == [ifs |-> ifs, reg |-> reg, loc |-> loc, err |-> "none", at |-> "none"]
        md == IF line.k = "devid" THEN device_id_re(line.v)
              ELSE [ok |-> FALSE, g1 |-> <<>>]
        mi == IF line.k = "ifport" THEN iface_port_re(line.a, line.b)
              ELSE [ok |-> FALSE, g1 |-> <<>>, g2 |-> <<>>]
        sl == splitIface(mi.g1)
        sr == splitIface(mi.g2)
    IN  IF line.k = "sep" THEN [same EXCEPT !.loc = SeparatorReset(loc)]
        ELSE IF loc.state = "skip" THEN same
        ELSE IF loc.device_id = None
        THEN IF ~md.ok THEN same
             ELSE IF md.g1 = <<>>
             THEN [same EXCEPT !.err = "ParsingException", !.at = "device_id"]
             ELSE [same EXCEPT !.loc.device_id = md.g1]
        ELSE IF loc.local_iface_id = None \/ loc.remote_iface_id = None
        THEN IF ~mi.ok THEN same
             ELSE IF ~sl.ok \/ ~sr.ok
             THEN [same EXCEPT !.err = "ParsingException", !.at = "neighbor_iface"]
             ELSE LET e == emitAdjacency(ifs, reg, loc.device_id, sl.key, sr.key)
                  IN  [ifs |-> e.ifs, reg |-> e.reg,
                       loc |-> AfterEmit(loc, sl.key, sr.key),
                       err |-> "none", at |-> "none"]
        ELSE same

\* ------------------------------------------------------------------ state
VARIABLES
    interfaces,   \* <<device, identifier>> -> Interface, over all devices
    vlans,        \* identifier -> Vlan of the subject device
    devices,      \* the registry: <<namespace, identifier>> of the Device objects
    stage,        \* the parser that is running: idle, interfaces, vlans, neighbors
    err,          \* the exception that ended the last parser call, or none
    raisedAt,     \* the field whose check raised it, or none
    returned,     \* the parser that returned last, or none
    ret,          \* its return value (-1 for None)
    nlines,       \* input lines consumed so far
    inputlen,     \* input lines available in this run
    linecount,    \* parseInterfaces: lines of this call
    applied,      \* parseInterfaces: lines of this call that returned True
    vlan,         \* parseVlans: the local variable vlan
    vlancount,    \* parseVlans: the local variable vlancount
    seenIds,      \* parseVlans: ids in the id column of the rows of this call
    nb,           \* parseNeighbors: device_id, local_iface_id, remote_iface_id, state
    entry,        \* parseNeighbors: the lines read since the last separator
    dropped,      \* parseNeighbors: a separator ended an entry that had a device
                  \* id but no adjacency
    fetchers,     \* <<identifier, shadow>> of the fetchers constructed later,
                  \* shadow: the registry already held that identifier
    trace,        \* [on, lines]: when on, the lines the running parser call
                  \* has consumed
    raw, res1, res2, npc,  \* the splitIface driver of SpecNorm
    sections,     \* CiscoReader: the sections of the device configuration
    done,         \* CiscoReader: the hostnames processDevice was called with
    failures,     \* CiscoReader: <<hostname, site>> of the exceptions caught
    outputs,      \* CiscoReader: the registry-wide files written
    rpc           \* CiscoReader: off, loop, try, except, after, end, aborted

gvars == <<interfaces, vlans, devices>>
cvars == <<stage, err, raisedAt, returned, ret, nlines, inputlen>>
ivars == <<linecount, applied>>
vvars == <<vlan, vlancount, seenIds>>
bvars == <<nb, entry, dropped>>
nvars == <<raw, res1, res2, npc>>
hvars == <<fetchers, trace>>
rvars == <<sections, done, failures, outputs, rpc>>
vars == <<gvars, cvars, ivars, vvars, bvars, nvars, hvars, rvars>>

Empty == [x \in {} |-> 0]

NbStart == [device_id |-> None, local_iface_id |-> None,
            remote_iface_id |-> None, state |-> "skip"]

\* no parser has been called yet
NoCall ==
    /\ interfaces = Empty
    /\ vlans = Empty
    /\ stage = "idle"
    /\ err = "none"
    /\ raisedAt = "none"
    /\ returned = "none"
    /\ ret = -1
    /\ nlines = 0
    /\ linecount = 0
    /\ applied = 0
    /\ vlan = Unbound
    /\ vlancount = 0
    /\ seenIds = {}
    /\ nb = NbStart
    /\ entry = <<>>
    /\ dropped = FALSE
    /\ fetchers = {}

\* everything but the length of the input
Constructed ==
    /\ NoCall
    /\ devices = GetCreateRDFObject({}, Subject, deviceIdToNsuri(Subject))

ReaderIdle ==
    /\ sections = <<>>
    /\ done = <<>>
    /\ failures = {}
    /\ outputs = <<>>
    /\ rpc = "off"

Untraced == [on |-> FALSE, lines |-> <<>>]
Traced == [on |-> TRUE, lines |-> <<>>]

\* the lines of the running call, with one more
Consumed(tr, line) == IF tr.on THEN [tr EXCEPT !.lines = Append(@, line)] ELSE tr

MainInit == Constructed /\ inputlen = MaxLines /\ trace = Untraced /\ ReaderIdle

NormIdle ==
    /\ raw = <<>>
    /\ res1 = Malformed
    /\ res2 = Malformed
    /\ npc = "off"

Init == MainInit /\ NormIdle

\* ----------------------------------------------------------------- inputs
Gi1 == <<"G", "i", "1">>
Gig1 == <<"G", "i", "g", "1">>
Te2 == <<"T", "e", "2">>
Vl1 == <<"V", "l", "1">>
Po1 == <<"P", "o", "1">>
Bad == <<"?">>
R1 == <<"R", "1">>

IfLine(n, ls, ps, d) ==
    [ifname |-> n, line_status |-> ls, protocol_status |-> ps, description |-> d]

InterfaceLines ==
    {IfLine(n, "up", "up", d) : n \in {Gi1, Gig1, Vl1}, d \in {"", "eth0"}}
    \cup {IfLine(n, "up", "up", "") : n \in {<<>>, Po1, Bad}}
    \cup {IfLine(n, ls, "down", "") : n \in {Gi1, Vl1}, ls \in {"up", "admin down", "down"}}
    \cup {IfLine(Gi1, "admin down", "up", ""), IfLine(Gi1, "up", "testing", "")}
    \cup {IfLine(n, "testing", "up", "eth0") : n \in {Gi1, Vl1}}

VlanRow(id, nm, st, ps) == [vlanid |-> id, name |-> nm, adminstatus |-> st, ports |-> ps]

PortLists == {<<>>, <<Gi1>>, <<Gig1, Gi1>>, <<Gi1, <<>>, Bad>>}

VlanRows ==
    {VlanRow(id, "default", "active", ps) : id \in {<<"1">>, <<"2">>}, ps \in PortLists}
    \cup {VlanRow(<<>>, "", "", ps) : ps \in PortLists}
    \cup {VlanRow(<<"x">>, "default", "active", <<>>)}

Line(k, v, a, b) == [k |-> k, v |-> v, a |-> a, b |-> b]

NeighborLines ==
    {Line("sep", <<>>, <<>>, <<>>), Line("other", <<>>, <<>>, <<>>)}
    \cup {Line("devid", v, <<>>, <<>>) : v \in {R1, <<"R">>, <<>>}}
    \cup {Line("ifport", <<>>, Gig1, Te2), Line("ifport", <<>>, Gig1, Bad),
          Line("ifport", <<>>, Bad, Te2)}

\* ---------------------------------------------------------------- actions
CallParseInterfaces ==
    /\ stage = "idle"
    /\ stage' = "interfaces"
    /\ err' = "none"
    /\ returned' = "none"
    /\ ret' = -1
    /\ raisedAt' = "none"
    /\ linecount' = 0
    /\ applied' = 0
    /\ trace' = [trace EXCEPT !.lines = <<>>]
    /\ UNCHANGED <<gvars, nlines, inputlen, vvars, bvars, nvars, fetchers, rvars>>

ParseInterfaceLineOf(line) ==
    /\ stage = "interfaces"
    /\ nlines < inputlen
    /\ LET r == parseInterfaceLine(interfaces, vlans, line)
       IN  /\ interfaces' = r.ifs
           /\ vlans' = r.vls
           /\ err' = r.err
           /\ raisedAt' = r.at
           /\ stage' = IF r.err = "none" THEN "interfaces" ELSE "idle"
           /\ applied' = IF r.err = "none" /\ r.result THEN applied + 1 ELSE applied
    /\ nlines' = nlines + 1
    /\ linecount' = linecount + 1
    /\ trace' = Consumed(trace, line)
    /\ UNCHANGED <<devices, returned, ret, inputlen, vvars, bvars, nvars, fetchers, rvars>>

ParseInterfaceLine == \E line \in InterfaceLines : ParseInterfaceLineOf(line)

ReturnParseInterfaces ==
    /\ stage = "interfaces"
    /\ stage' = "idle"
    /\ returned' = "parseInterfaces"
    /\ ret' = linecount
    /\ UNCHANGED <<gvars, err, raisedAt, nlines, inputlen, ivars, vvars, bvars, nvars, hvars, rvars>>

CallParseVlans ==
    /\ stage = "idle"
    /\ stage' = "vlans"
    /\ err' = "none"
    /\ raisedAt' = "none"
    /\ returned' = "none"
    /\ ret' = -1
    /\ vlan' = Unbound
    /\ vlancount' = 0
    /\ seenIds' = {}
    /\ trace' = [trace EXCEPT !.lines = <<>>]
    /\ UNCHANGED <<gvars, nlines, inputlen, ivars, bvars, nvars, fetchers, rvars>>

ParseVlanRowOf(row) ==
    /\ stage = "vlans"
    /\ nlines < inputlen
    /\ LET r == parseVlanRow(interfaces, vlans, vlan, vlancount, seenIds, row)
       IN  /\ interfaces' = r.ifs
           /\ vlans' = r.vls
           /\ vlan' = r.vlan
           /\ vlancount' = r.vlancount
           /\ seenIds' = IF isdigit(row.vlanid)
                         THEN seenIds \cup {int(row.vlanid)} ELSE seenIds
           /\ err' = r.err
           /\ raisedAt' = r.at
           /\ stage' = IF r.err = "none" THEN "vlans" ELSE "idle"
    /\ nlines' = nlines + 1
    /\ trace' = Consumed(trace, row)
    /\ UNCHANGED <<devices, returned, ret, inputlen, ivars, bvars, nvars, fetchers, rvars>>

ParseVlanRow == \E row \in VlanRows : ParseVlanRowOf(row)

ReturnParseVlans ==
    /\ stage = "vlans"
    /\ stage' = "idle"
    /\ returned' = "parseVlans"
    /\ ret' = vlancount
    /\ vlan' = Unbound
    /\ vlancount' = 0
    /\ UNCHANGED <<gvars, err, raisedAt, nlines, inputlen, ivars, seenIds, bvars, nvars, hvars, rvars>>

CallParseNeighbors ==
    /\ stage = "idle"
    /\ stage' = "neighbors"
    /\ err' = "none"
    /\ raisedAt' = "none"
    /\ returned' = "none"
    /\ ret' = -1
    /\ nb' = NbStart
    /\ entry' = <<>>
    /\ dropped' = FALSE
    /\ trace' = [trace EXCEPT !.lines = <<>>]
    /\ UNCHANGED <<gvars, nlines, inputlen, ivars, vvars, nvars, fetchers, rvars>>

ParseNeighborLineOf(line) ==
    /\ stage = "neighbors"
    /\ nlines < inputlen
    /\ LET r == parseNeighborLine(interfaces, devices, nb, line)
       IN  /\ interfaces' = r.ifs
           /\ devices' = r.reg
           /\ nb' = r.loc
           /\ err' = r.err
           /\ raisedAt' = r.at
           /\ stage' = IF r.err = "none" THEN "neighbors" ELSE "idle"
    /\ entry' = IF line.k = "sep" \/ (nb.state = "skip" /\ entry = <<>>)
                THEN <<>> ELSE Append(entry, line)
    /\ dropped' = IF line.k = "sep"
                  THEN (nb.state = "search" /\ nb.device_id # None) ELSE dropped
    /\ nlines' = nlines + 1
    /\ trace' = Consumed(trace, line)
    /\ UNCHANGED <<vlans, returned, ret, inputlen, ivars, vvars, nvars, fetchers, rvars>>

ParseNeighborLine == \E line \in NeighborLines : ParseNeighborLineOf(line)

ReturnParseNeighbors ==
    /\ stage = "neighbors"
    /\ stage' = "idle"
    /\ returned' = "parseNeighbors"
    /\ ret' = -1
    /\ nb' = NbStart
    /\ entry' = <<>>
    /\ dropped' = FALSE
    /\ UNCHANGED <<gvars, err, raisedAt, nlines, inputlen, ivars, vvars, nvars, hvars, rvars>>

Next ==
    \/ CallParseInterfaces
    \/ ParseInterfaceLine
    \/ ReturnParseInterfaces
    \/ CallParseVlans
    \/ ParseVlanRow
    \/ ReturnParseVlans
    \/ CallParseNeighbors
    \/ ParseNeighborLine
    \/ ReturnParseNeighbors

Spec == Init /\ [][Next]_vars

\* --------------------------------------------------- retrieve (SpecRetrieve)
InterfaceRaiseSites == {"ifname", "line_status", "protocol_status"}
VlanRaiseSites == {"vlanid", "vlan", "port"}
NeighborRaiseSites == {"device_id", "neighbor_iface"}

\* the statement of retrieve that follows the parser that returned last
AfterReturn(last) ==
    CASE last = "none" -> "parseInterfaces"
      [] last = "parseInterfaces" -> "parseVlans"
      [] last = "parseVlans" -> "parseNeighbors"
      [] OTHER -> "return"

retrieveStepCatching(last, e, at) ==
    IF e = "none" THEN AfterReturn(last)
    ELSE IF at \in InterfaceRaiseSites THEN "parseVlans"
    ELSE IF at \in VlanRaiseSites THEN "parseNeighbors"
    ELSE "return"

\* what retrieve does next: its three calls are made in sequence and an
\* exception of a parser is not caught
retrieveStep(last, e, at) == IF e # "none" THEN "raise" ELSE AfterReturn(last)

RetrieveNext ==
    \/ (retrieveStep(returned, err, raisedAt) = "parseInterfaces" /\ CallParseInterfaces)
    \/ ParseInterfaceLine
    \/ ReturnParseInterfaces
    \/ (retrieveStep(returned, err, raisedAt) = "parseVlans" /\ CallParseVlans)
    \/ ParseVlanRow
    \/ ReturnParseVlans
    \/ (retrieveStep(returned, err, raisedAt) = "parseNeighbors" /\ CallParseNeighbors)
    \/ ParseNeighborLine
    \/ ReturnParseNeighbors

SpecRetrieve == Init /\ [][RetrieveNext]_vars

\* ------------------------------------------ neighbor block (SpecNeighbors)
R2 == <<"R", "2">>

FetcherIds == {R1, R2}

\* CiscoFetcher(hostname, identifier) for another device of the configuration:
\* its subject is looked up or created in the registry
ConstructFetcher ==
    /\ stage = "idle"
    /\ \E identifier \in FetcherIds :
          /\ \A f \in fetchers : f[1] # identifier
          /\ devices' = GetCreateRDFObject(devices, identifier, deviceIdToNsuri(identifier))
          /\ fetchers' = fetchers \cup {<<identifier, \E d \in devices : d[2] = identifier>>}
    /\ UNCHANGED <<interfaces, vlans, cvars, ivars, vvars, bvars, nvars, trace, rvars>>

NeighborsInit ==
    Constructed /\ inputlen = MaxNeighborLines /\ trace = Untraced /\ NormIdle /\ ReaderIdle

\* ------------------------------------------------ re-application (SpecReapply)
\* The parsers of Spec on a short input, with the lines of each call recorded.
ReapplyInit ==
    Constructed /\ inputlen = MaxReapply /\ trace = Traced /\ NormIdle /\ ReaderIdle

SpecReapply == ReapplyInit /\ [][Next]_vars

NeighborsNext ==
    \/ ConstructFetcher
    \/ CallParseNeighbors
    \/ ParseNeighborLine
    \/ ReturnParseNeighbors

SpecNeighbors == NeighborsInit /\ [][NeighborsNext]_vars

\* ------------------------------------------- normalizer driver (SpecNorm)
Alphabet == {"G", "i", "1", "/", ".", " ", "?"}

RawNames == UNION {[1..n -> Alphabet] : n \in 0..MaxLen}

NormInit ==
    /\ MainInit
    /\ raw \in RawNames
    /\ res1 = Malformed
    /\ res2 = Malformed
    /\ npc = "start"

Normalize ==
    /\ npc = "start"
    /\ res1' = splitIface(raw)
    /\ npc' = "once"
    /\ UNCHANGED <<raw, res2, gvars, cvars, ivars, vvars, bvars, hvars, rvars>>

Renormalize ==
    /\ npc = "once"
    /\ res1.ok
    /\ res2' = splitIface(res1.key)
    /\ npc' = "twice"
    /\ UNCHANGED <<raw, res1, gvars, cvars, ivars, vvars, bvars, hvars, rvars>>

NormNext == Normalize \/ Renormalize

SpecNorm == NormInit /\ [][NormNext]_vars

\* ------------------------------------------------- CiscoReader (SpecReader)
R3 == <<"R", "3">>

\* the hostnames a device configuration can name
ConfigHosts == FetcherIds \cup {Subject, R3}

\* devices_conf.sections(): the section names, each once, in file order
Sections ==
    UNION {{s \in [1..n -> ConfigHosts] : \A i, j \in 1..n : s[i] = s[j] => i = j} :
              n \in 0..MaxDevices}

\* where the body of the try of processDevice can raise: the construction
\* of the fetcher, the set-up of its source, the login settings, and
\* getSubject, which fetches and parses
RaiseSitesOfTry == {"construct", "source", "login", "getSubject"}

ReaderInit ==
    /\ NoCall
    /\ devices = {}
    /\ inputlen = 0
    /\ trace = Untraced
    /\ NormIdle
    /\ sections \in Sections
    /\ done = <<>>
    /\ failures = {}
    /\ outputs = <<>>
    /\ rpc = "loop"

CatchesParsingOnly(site) == site = "getSubject"

\* except:  "*any* kind of exception, including user-interupts, etc."
Catches(site) == TRUE

\* for hostname in self.devices_conf.sections(): self.processDevice(hostname),
\* up to the try
StartDevice ==
    /\ rpc = "loop"
    /\ Len(done) < Len(sections)
    /\ done' = Append(done, sections[Len(done) + 1])
    /\ rpc' = "try"
    /\ UNCHANGED <<sections, failures, outputs, gvars, cvars, ivars, vvars, bvars,
                   nvars, hvars>>

\* the body of the try, with options.simulate not 'pickle': it ends normally
\* or raises at one of its sites; the fetcher, once constructed, has its
\* subject in the registry
TryBody ==
    /\ rpc = "try"
    /\ \E site \in RaiseSitesOfTry \cup {"none"} :
          LET hostname == done[Len(done)]
          IN  /\ devices' = IF site = "construct" THEN devices
                            ELSE GetCreateRDFObject(devices, hostname,
                                                    deviceIdToNsuri(hostname))
              /\ failures' = IF site # "none" /\ Catches(site)
                             THEN failures \cup {<<hostname, site>>} ELSE failures
              /\ rpc' = IF site = "none" THEN "after"
                        ELSE IF Catches(site) THEN "except" ELSE "aborted"
    /\ UNCHANGED <<sections, done, outputs, interfaces, vlans, cvars, ivars, vvars,
                   bvars, nvars, hvars>>

\* the handler: the exception is logged and processDevice goes on
Except ==
    /\ rpc = "except"
    /\ rpc' = "after"
    /\ UNCHANGED <<sections, done, failures, outputs, gvars, cvars, ivars, vvars,
                   bvars, nvars, hvars>>

\* pynt.output.CopyFile either copies or raises IOError
CopyFileOutcomes == {"none", "IOError"}

\* try: CopyFile(...) / except IOError: pass
CopyFileEscapes(e) == e \notin {"none", "IOError"}

\* after the try: with an error now and one in the previous run the static
\* file replaces the dynamic one; then processDevice returns to the loop
AfterTry ==
    /\ rpc = "after"
    /\ \E prevErrors \in BOOLEAN, e \in CopyFileOutcomes :
          LET curErrors == \E f \in failures : f[1] = done[Len(done)]
          IN  rpc' = IF curErrors /\ prevErrors /\ CopyFileEscapes(e)
                    THEN "aborted" ELSE "loop"
    /\ UNCHANGED <<sections, done, failures, outputs, gvars, cvars, ivars, vvars,
                   bvars, nvars, hvars>>

\* after the loop: RDFOutput, DeviceGraphOutput and InterfaceGraphOutput of
\* the whole registry
EmitOutputs ==
    /\ rpc = "loop"
    /\ Len(done) = Len(sections)
    /\ outputs' = <<"devices.rdf", "devices.dot", "interfaces.dot">>
    /\ rpc' = "end"
    /\ UNCHANGED <<sections, done, failures, gvars, cvars, ivars, vvars, bvars,
                   nvars, hvars>>

ReaderNext ==
    \/ StartDevice
    \/ TryBody
    \/ Except
    \/ AfterTry
    \/ EmitOutputs

SpecReader == ReaderInit /\ [][ReaderNext]_vars

\* ----------------------------------------------------------------- claims
\* C1: a port of VLAN 1 is an untagged member and never a tagged one; a port
\* of any other VLAN id is a tagged member and never an untagged one.
C1_Vlan1Untagged ==
    \A k \in DOMAIN vlans :
        k.t = "int" =>
            /\ (k.n = 1 => vlans[k].tagged = <<>>)
            /\ (k.n # 1 => vlans[k].untagged = <<>>)

\* C2: every Interface whose admin status is down has link status unknown.
C2_AdminDownLinkUnknown ==
    \A r \in DOMAIN interfaces :
        interfaces[r].adminStatus = "down" => interfaces[r].linkStatus = "unknown"

\* the lines of an entry that match device_id_re / iface_port_re
DevIdLines(e) == {i \in 1..Len(e) : e[i].k = "devid" /\ device_id_re(e[i].v).ok}
IfPortLines(e) == {j \in 1..Len(e) : e[j].k = "ifport" /\ iface_port_re(e[j].a, e[j].b).ok}
ValidNames(l) == splitIface(l.a).ok /\ splitIface(RStrip(l.b)).ok
Least(S) == CHOOSE x \in S : \A y \in S : x <= y

Adjacent(l, dev, r) ==
    /\ <<Subject, l>> \in DOMAIN interfaces
    /\ <<dev, r>> \in DOMAIN interfaces
    /\ <<dev, r>> \in interfaces[<<Subject, l>>].connected

AdjacentFor(d, l) ==
    Adjacent(splitIface(l.a).key, device_id_re(d.v).g1, splitIface(RStrip(l.b)).key)

\* the entry ends: the next separator is read, or parseNeighbors returns
EntryCloses == stage = "neighbors" /\ entry # <<>> /\ entry' = <<>>

\* C3 as stated: an entry holding a matching Device ID line and a matching
\* Interface line with valid names, in either order, has its adjacency when
\* the entry ends.
C3_AnyOrder ==
    [][(/\ EntryCloses
        /\ DevIdLines(entry) # {}
        /\ \E j \in IfPortLines(entry) : ValidNames(entry[j]))
       => \E i \in DevIdLines(entry), j \in IfPortLines(entry) :
              ValidNames(entry[j]) /\ AdjacentFor(entry[i], entry[j])]_vars

IfPortAfterDevId(e) == {j \in IfPortLines(e) : j > Least(DevIdLines(e))}

\* C3 as amended: when the entry's first matching Device ID line is followed
\* by a matching Interface line, the first such line has valid names and the
\* adjacency between its normalized names on that device exists when the
\* entry ends.
C3_DeviceIdFirst ==
    [][(/\ EntryCloses
        /\ DevIdLines(entry) # {}
        /\ IfPortAfterDevId(entry) # {})
       => LET d == entry[Least(DevIdLines(entry))]
              l == entry[Least(IfPortAfterDevId(entry))]
          IN  ValidNames(l) /\ AdjacentFor(d, l)]_vars

C3_Witness ==
    /\ stage = "neighbors"
    /\ nb.state = "skip"
    /\ DevIdLines(entry) # {}
    /\ IfPortAfterDevId(entry) # {}
    /\ AdjacentFor(entry[Least(DevIdLines(entry))], entry[Least(IfPortAfterDevId(entry))])
    /\ splitIface(entry[Least(IfPortAfterDevId(entry))].a).key
         # entry[Least(IfPortAfterDevId(entry))].a

C5_Idempotent == npc = "twice" => (res2.ok /\ res2 = res1)

C5_Witness == npc = "twice" /\ res1.ok /\ res1.key # raw /\ res2 = res1

\* the form the specification gives for names: optional blanks, letters,
\* then a numeric path N(/N)*(.N)?, optional blanks
RECURSIVE SlashParts(_, _)
SlashParts(s, i) ==
    IF i <= Len(s) /\ s[i] = "/" /\ SkipClass(s, i + 1, Digits) > i + 1
    THEN SlashParts(s, SkipClass(s, i + 1, Digits)) ELSE i

WellFormedName(s) ==
    LET i0 == SkipClass(s, 1, Spaces)
        i1 == SkipClass(s, i0, Letters)
        i2 == SkipClass(s, i1, Digits)
        i3 == SlashParts(s, i2)
        i4 == IF i3 <= Len(s) /\ s[i3] = "." /\ SkipClass(s, i3 + 1, Digits) > i3 + 1
              THEN SkipClass(s, i3 + 1, Digits) ELSE i3
    IN  i2 > i1 /\ SkipClass(s, i4, Spaces) = Len(s) + 1

\* C6: splitIface fails exactly when the raw name is not letters followed by
\* a numeric path N(/N)*(.N)?.
C6_FailsExactlyOnMalformed == npc # "start" => (res1.ok <=> WellFormedName(raw))

\* C7: the device holds at most one Interface per normalized key.
C7_OneInterfacePerKey ==
    \A r1, r2 \in DOMAIN interfaces :
        (r1[1] = r2[1] /\ splitIface(r1[2]).key = splitIface(r2[2]).key) => r1 = r2

VlanIdOf(k) == IF k.t = "int" THEN k.n ELSE int(k.s)

\* C8: the device has exactly one VLAN per VLAN id, whether the id came from
\* a 'Vl<N>' description line or from the id column of the VLAN table.
C8_OneVlanPerId ==
    \A k1, k2 \in DOMAIN vlans : VlanIdOf(k1) = VlanIdOf(k2) => k1 = k2

\* C9: a row with a blank id column read while no VLAN is current raises the
\* parser's ParsingException and creates nothing.
C9_MissingHeaderIsParsingException ==
    [][\A row \in VlanRows :
          (row.vlanid = <<>> /\ vlan = Unbound /\ ParseVlanRowOf(row))
          => (err' = "ParsingException" /\ interfaces' = interfaces /\ vlans' = vlans)]_vars

\* C10: parseVlans returns the number of distinct ids of the id column.
C10_ReturnsDistinctIds == returned = "parseVlans" => ret = Cardinality(seenIds)

\* C11: parseInterfaces returns the number of its lines that created or
\* updated an Interface or a VLAN (the lines for which parseInterfaceLine
\* returned True).
C11_ReturnsAppliedLines == returned = "parseInterfaces" => ret = applied

BadName(line) == line.ifname # <<>> /\ ~splitIface(line.ifname).ok

\* C12 as stated: a description-table line whose name fails normalization does
\* not end the table: the loop goes on with the next line.
C12_BadNameKeepsTable ==
    [][\A line \in InterfaceLines :
          (BadName(line) /\ ParseInterfaceLineOf(line)) => stage' = "interfaces"]_vars

\* C12 as amended: a description-table line whose name fails normalization
\* raises ParsingException out of parseInterfaces: the table is abandoned at
\* that line and the line changes nothing.
C12_BadNameAbortsTable ==
    [][\A line \in InterfaceLines :
          (BadName(line) /\ ParseInterfaceLineOf(line))
          => (err' = "ParsingException" /\ stage' = "idle" /\ UNCHANGED gvars)]_vars

C12_Witness ==
    /\ stage = "idle"
    /\ err = "ParsingException"
    /\ raisedAt = "ifname"
    /\ linecount >= 2
    /\ applied >= 1
    /\ nlines < inputlen

\* C13: retrieve runs parseInterfaces, then parseVlans, then parseNeighbors,
\* each after the one before it has returned; once a parser has raised, no
\* parser runs and the device and the registry stay as they are.
C13_InOrderUntilFirstError ==
    [][/\ (err # "none" => UNCHANGED <<gvars, stage>>)
       /\ (stage' = "interfaces" /\ stage = "idle"
              => returned = "none" /\ nlines = 0)
       /\ (stage' = "vlans" /\ stage = "idle" => returned = "parseInterfaces")
       /\ (stage' = "neighbors" /\ stage = "idle" => returned = "parseVlans")]_vars

C13_Witness ==
    /\ stage = "idle"
    /\ err # "none"
    /\ raisedAt \in InterfaceRaiseSites
    /\ interfaces # Empty
    /\ nlines < inputlen

\* C14: when a parser raises on a line, every Interface, VLAN and Device that
\* existed before that line is still there with the field values, members and
\* adjacencies it had before that line.
C14_RaiseKeepsEarlierValues ==
    [][(stage # "idle" /\ err' # "none")
       => /\ \A r \in DOMAIN interfaces :
                r \in DOMAIN interfaces' /\ interfaces'[r] = interfaces[r]
          /\ \A k \in DOMAIN vlans : k \in DOMAIN vlans' /\ vlans'[k] = vlans[k]
          /\ devices \subseteq devices']_vars

\* C15: inside an entry that has no device id yet, a 'Device ID:' line with an
\* empty value makes parseNeighbors raise.
C15_EmptyDeviceIdRaises ==
    [][\A line \in NeighborLines :
          (/\ line.k = "devid"
           /\ RStrip(line.v) = <<>>
           /\ nb.state = "search"
           /\ nb.device_id = None
           /\ ParseNeighborLineOf(line))
          => err' # "none"]_vars

\* C16: the registry holds at most one Device per identifier, whether it came
\* from a neighbor entry or from the construction of a fetcher.
C16_OneDevicePerIdentifier ==
    \A d1, d2 \in devices : d1[2] = d2[2] => d1 = d2

\* a fetcher was constructed for R1 after a neighbor entry had named R1
C16_Witness ==
    /\ <<R1, TRUE>> \in fetchers
    /\ \E l \in DOMAIN interfaces : \E r \in interfaces[l].connected : r[1] = R1
    /\ Cardinality({d \in devices : d[2] = R1}) = 1

\* the entry has made its adjacency: its first Device ID line is followed by
\* an Interface line
Emitted(e) == DevIdLines(e) # {} /\ IfPortAfterDevId(e) # {}

\* C17: after an entry has made its adjacency, a further line of the entry
\* other than the separator changes neither the device graph, nor the
\* registry, nor the state of the parser, and raises nothing.
C17_OneAdjacencyPerEntry ==
    [][\A line \in NeighborLines :
          (Emitted(entry) /\ line.k # "sep" /\ ParseNeighborLineOf(line))
          => (UNCHANGED <<gvars, nb>> /\ nb.state = "skip" /\ err' = "none")]_vars

C17_Witness ==
    /\ stage = "neighbors"
    /\ err = "none"
    /\ nb.state = "skip"
    /\ Emitted(entry)
    /\ LET j == Least(IfPortAfterDevId(entry))
       IN  /\ AdjacentFor(entry[Least(DevIdLines(entry))], entry[j])
           /\ \E i \in DevIdLines(entry) : i > j
           /\ \E i \in IfPortLines(entry) : i > j
    /\ Cardinality(DOMAIN interfaces) = 2

\* C18: the separator line clears the device id and the interface pair and
\* touches neither the graph nor the registry nor raises; the graph or the
\* registry changes only on an Interface line that follows a Device ID line
\* of the same entry, and the adjacency then made is on that device.
C18_SeparatorDiscardsPartialEntry ==
    [][\A line \in NeighborLines :
          ParseNeighborLineOf(line)
          => /\ (line.k = "sep"
                   => /\ UNCHANGED gvars
                      /\ err' = "none"
                      /\ nb'.device_id = None
                      /\ nb'.local_iface_id = None
                      /\ nb'.remote_iface_id = None)
             /\ (gvars' # gvars
                   => /\ line.k = "ifport"
                      /\ DevIdLines(entry) # {}
                      /\ nb.device_id = device_id_re(entry[Least(DevIdLines(entry))].v).g1
                      /\ ValidNames(line)
                      /\ splitIface(line.a).key \in
                            {r[2] : r \in {x \in DOMAIN interfaces' : x[1] = Subject}}
                      /\ \E r \in interfaces'[<<Subject, splitIface(line.a).key>>].connected :
                            r[1] = nb.device_id)]_vars

\* an entry with a device id was ended by the separator, and the Interface
\* line read after it has made nothing
C18_Witness ==
    /\ stage = "neighbors"
    /\ err = "none"
    /\ dropped
    /\ nb.device_id = None
    /\ \E j \in IfPortLines(entry) : ValidNames(entry[j])
    /\ interfaces = Empty
    /\ devices = GetCreateRDFObject({}, Subject, deviceIdToNsuri(Subject))

\* the lines of a neighbor entry applied in order, from the state the
\* separator leaves
RECURSIVE ReplayEntry(_, _, _, _)
ReplayEntry(ifs, reg, loc, e) ==
    IF e = <<>> THEN [ifs |-> ifs, reg |-> reg, err |-> "none"]
    ELSE LET r == parseNeighborLine(ifs, reg, loc, Head(e))
         IN  IF r.err # "none" THEN [ifs |-> r.ifs, reg |-> r.reg, err |-> r.err]
             ELSE ReplayEntry(r.ifs, r.reg, r.loc, Tail(e))

NoDuplicates(seq) == Cardinality(Members(seq)) = Len(seq)

C20_BlankKeepsDescription ==
    [][\A line \in InterfaceLines :
          (line.description = "" /\ ParseInterfaceLineOf(line))
          => /\ \A r \in DOMAIN interfaces :
                   interfaces[r].description # ""
                   => interfaces'[r].description = interfaces[r].description
             /\ \A k \in DOMAIN vlans :
                   vlans[k].description # ""
                   => vlans'[k].description = vlans[k].description]_vars

\* Gi1 got its description from one line and was shut down by a later line
\* with a blank description column
C20_Witness ==
    /\ stage = "interfaces"
    /\ err = "none"
    /\ <<Subject, Gi1>> \in DOMAIN interfaces
    /\ interfaces[<<Subject, Gi1>>].description = "eth0"
    /\ interfaces[<<Subject, Gi1>>].adminStatus = "down"

\* C21: a description-table line that raises on its line status or on its
\* protocol status leaves the device as it was before the line: no Interface
\* or VLAN is created and no field of an existing one is changed.
C21_UnknownStatusAppliesNothing ==
    [][\A line \in InterfaceLines :
          (ParseInterfaceLineOf(line) /\ raisedAt' \in {"line_status", "protocol_status"})
          => UNCHANGED <<interfaces, vlans>>]_vars

\* C22: whatever raised while a device was processed, start goes on:
\* processDevice is called with the sections of the configuration in their
\* order, each once, start is never left by an exception, and the
\* registry-wide outputs are written once processDevice has been called for
\* the last section, and not before.
C22_EveryDeviceProcessed ==
    /\ rpc # "aborted"
    /\ Len(done) <= Len(sections)
    /\ done = SubSeq(sections, 1, Len(done))
    /\ (outputs # <<>> => done = sections /\ rpc = "end")
    /\ (rpc = "end" => outputs = <<"devices.rdf", "devices.dot", "interfaces.dot">>)
    /\ \A f \in failures : \E i \in 1..Len(done) : done[i] = f[1]

\* the try raised for the first device and, in getSubject, for the second;
\* all three devices were processed and the outputs written
C22_Witness ==
    /\ rpc = "end"
    /\ Len(sections) = 3
    /\ done = sections
    /\ \E site \in RaiseSitesOfTry : <<sections[1], site>> \in failures
    /\ <<sections[2], "getSubject">> \in failures
    /\ \A f \in failures : f[1] # sections[3]
    /\ outputs # <<>>
====
